---- MODULE Spec2Model ----
(***************************************************************************)
(* Model of app.py: the SQLite record store (users, conversations), the    *)
(* mock LBM reply generator and the Streamlit script main(), which runs    *)
(* once per user interaction of a browser session.                         *)
(*                                                                         *)
(* Text is a sequence of one-character strings; a literal sentence of the  *)
(* source is kept as one token.  None is the empty sequence and an         *)
(* Optional[dict] is a sequence of at most one record.  A uuid4 is a fresh  *)
(* natural number; the None / empty user_id of a session is 0.             *)
(***************************************************************************)
EXTENDS Integers, Sequences, FiniteSets, TLC

\* ------------------------------------------------------------------ bounds
MaxUsers == 1
MaxTurns == 2

\* --------------------------------------------------------------- constants
EchoLimit == 1000

\* every registration mints one uuid4 and every chat turn two
MaxIds == MaxUsers + 2 * MaxTurns

Sessions == {"s1"}

Whitespace == {" ", "\t", "\n"}

\* the texts the forms are filled with: empty, blank, markup inside blanks,
\* a quote and a backslash
Prompts == {<<>>, <<" ">>, <<" ", "<", "a", " ">>}
Bios == {<<>>, <<"b", "\"", "\\">>}
Names == {<<>>, <<"A">>}
Emails == {<<>>, <<"@">>}
Keys == {<<>>, <<"k">>}
ExternalTexts == {<<"y", " ">>}
Ips == {<<"9">>}
ExtOutcomes == {"ok", "status", "error", "malformed"}

\* ------------------------------------------------------------ text helpers
RECURSIVE Join(_, _)
Join(sep, ss) ==
    IF ss = <<>> THEN <<>>
    ELSE IF Len(ss) = 1 THEN Head(ss)
    ELSE Head(ss) \o sep \o Join(sep, Tail(ss))

Take(s, n) == SubSeq(s, 1, IF Len(s) < n THEN Len(s) ELSE n)

RECURSIVE LStrip(_)
LStrip(s) == IF s # <<>> /\ Head(s) \in Whitespace THEN LStrip(Tail(s)) ELSE s

RECURSIVE RStrip(_)
RStrip(s) ==
    IF s # <<>> /\ s[Len(s)] \in Whitespace THEN RStrip(SubSeq(s, 1, Len(s) - 1)) ELSE s

strip(s) == RStrip(LStrip(s))

html_escape_char(c) ==
    CASE c = "&" -> <<"&", "a", "m", "p", ";">>
      [] c = "<" -> <<"&", "l", "t", ";">>
      [] c = ">" -> <<"&", "g", "t", ";">>
      [] c = "\"" -> <<"&", "q", "u", "o", "t", ";">>
      [] c = "'" -> <<"&", "#", "x", "2", "7", ";">>
      [] OTHER -> <<c>>

RECURSIVE html_escape(_)
html_escape(s) ==
    IF s = <<>> THEN <<>> ELSE html_escape_char(Head(s)) \o html_escape(Tail(s))

\* -------------------------------------------------------------------- JSON
\* json.dumps as a token sequence: the punctuation of the default
\* separators, one-character tokens for string contents, atomic key names.
json_escape_char(c) ==
    CASE c = "\"" -> <<"\\", "\"">>
      [] c = "\\" -> <<"\\", "\\">>
      [] OTHER -> <<c>>

RECURSIVE json_escape(_)
json_escape(s) ==
    IF s = <<>> THEN <<>> ELSE json_escape_char(Head(s)) \o json_escape(Tail(s))

JStr(s) == <<"\"">> \o json_escape(s) \o <<"\"">>
JBool(b) == IF b THEN <<"true">> ELSE <<"false">>
JNull == <<"null">>
JPair(k, v) == <<"\"", k, "\"", ": ">> \o v
JObj(pairs) == <<"{">> \o Join(<<", ">>, pairs) \o <<"}">>

\* json.dumps(user.get("meta", {})) for the meta dict of a profile
dumps_meta(meta) ==
    JObj(<<JPair("bio", JStr(meta.bio)),
           JPair("allow_tech_info", JBool(meta.allow_tech_info)),
           JPair("sensitive_data_ack", JBool(meta.sensitive_data_ack))>>)

\* json.loads of a flat object whose values are strings or booleans.
\* parse_string reads from the position after the opening quote and gives the
\* decoded text and the position after the closing quote.
RECURSIVE parse_string(_, _, _)
parse_string(t, i, acc) ==
    IF t[i] = "\"" THEN [v |-> acc, next |-> i + 1]
    ELSE IF t[i] = "\\" THEN parse_string(t, i + 2, Append(acc, t[i + 1]))
    ELSE parse_string(t, i + 1, Append(acc, t[i]))

parse_value(t, i) ==
    IF t[i] = "\"" THEN parse_string(t, i + 1, <<>>)
    ELSE [v |-> (t[i] = "true"), next |-> i + 1]

\* reads the pairs from position i (a key's opening quote, or the closing brace)
RECURSIVE parse_pairs(_, _, _)
parse_pairs(t, i, acc) ==
    IF t[i] = "}" THEN acc
    ELSE IF t[i] = ", " THEN parse_pairs(t, i + 1, acc)
    ELSE LET k == t[i + 1]
             val == parse_value(t, i + 4)
         IN parse_pairs(t, val.next, acc @@ (k :> val.v))

EmptyDict == [k \in {} |-> TRUE]

json_loads(t) == parse_pairs(t, 2, EmptyDict)

\* ------------------------------------------------------------ record store
NoTables == [t \in {} |-> {}]

\* CREATE TABLE IF NOT EXISTS: an existing table keeps its rows
create_table_if_not_exists(d, t) ==
    IF t \in DOMAIN d THEN d
    ELSE [x \in (DOMAIN d) \cup {t} |-> IF x = t THEN {} ELSE d[x]]

\* mutant: DROP TABLE and CREATE TABLE on every start
init_db_recreate(d) == [t \in {"users", "conversations"} |-> {}]

init_db(d) ==
    create_table_if_not_exists(create_table_if_not_exists(d, "users"), "conversations")

with_table(d, t, rows) == [d EXCEPT ![t] = rows]

user_row(user) ==
    [id |-> user.id, name |-> user.name, email |-> user.email, phone |-> user.phone,
     meta |-> dumps_meta(user.meta), created_at |-> user.created_at]

\* mutant: INSERT OR IGNORE, the row already stored wins
save_user_ignore(d, user) ==
    IF \E r \in d["users"] : r.id = user.id THEN d
    ELSE with_table(d, "users", d["users"] \cup {user_row(user)})

\* INSERT OR REPLACE INTO users: the row with the same primary key is removed
save_user(d, user) ==
    with_table(d, "users", {r \in d["users"] : r.id # user.id} \cup {user_row(user)})

\* primary-key conflict of a plain INSERT (sqlite3.IntegrityError)
pk_conflict(d, t, id) == \E r \in d[t] : r.id = id

\* mutant: the execute is never committed
save_message_nocommit(d, conv) == d

\* mutant: one row per user and role, the latest message replaces the earlier
save_message_replace(d, conv) ==
    with_table(d, "conversations",
               {r \in d["conversations"] :
                   ~(r.user_id = conv.user_id /\ r.role = conv.role)} \cup {conv})

\* INSERT INTO conversations; conv.metadata is already the json.dumps text
save_message(d, conv) ==
    with_table(d, "conversations", d["conversations"] \cup {conv})

\* mutant: a missing row gives an empty profile instead of None
fetch_user_stub(d, user_id) ==
    LET rows == {r \in d["users"] : r.id = user_id}
    IN IF rows = {}
       THEN <<[id |-> user_id, name |-> <<>>, email |-> <<>>, phone |-> <<>>,
               meta |-> EmptyDict, created_at |-> 0]>>
       ELSE LET row == CHOOSE r \in rows : TRUE
            IN <<[id |-> row.id, name |-> row.name, email |-> row.email,
                  phone |-> row.phone,
                  meta |-> IF row.meta # <<>> THEN json_loads(row.meta) ELSE EmptyDict,
                  created_at |-> row.created_at]>>

fetch_user(d, user_id) ==
    LET rows == {r \in d["users"] : r.id = user_id}
    IN IF rows = {} THEN <<>>
       ELSE LET row == CHOOSE r \in rows : TRUE
            IN <<[id |-> row.id, name |-> row.name, email |-> row.email,
                  phone |-> row.phone,
                  meta |-> IF row.meta # <<>> THEN json_loads(row.meta) ELSE EmptyDict,
                  created_at |-> row.created_at]>>

\* ---------------------------------------------------------------- mock LBM
mock_lbm_response(user_profile, prompt) ==
    LET name == IF user_profile.name # <<>> THEN user_profile.name ELSE <<"Friend">>
        short_profile == IF "bio" \in DOMAIN user_profile.meta
                         THEN user_profile.meta["bio"] ELSE <<>>
        sanitized == Take(html_escape(strip(prompt)), EchoLimit)
        reply_lines ==
            <<<<"Hi ">> \o name \o <<", thanks for sharing that.">>>>
            \o (IF short_profile # <<>>
                THEN <<<<"I remember you said: \"">> \o short_profile
                       \o <<"\" -- I'll keep that in mind.">>>>
                ELSE <<>>)
            \o <<<<"Here's a thoughtful reply to your message:">>,
                 <<"> ">> \o sanitized,
                 <<"Suggestion: try breaking the task into smaller steps. Which step would you like help with first?">>,
                 <<"(This is a demo response from Assessli's prototype LBM -- not medical or legal advice.)">>>>
    IN Join(<<"\n\n">>, reply_lines)

\* mutant: the body is decoded outside the try, a malformed body is not caught
reply_text_unguarded(user, prompt, openai_key, ext, ext_text) ==
    IF openai_key # <<>>
    THEN IF ext \in {"ok", "malformed"} THEN strip(ext_text)
         ELSE mock_lbm_response(user, prompt)
    ELSE mock_lbm_response(user, prompt)

\* the text companion_chat_ui ends up with: the external content on a 200
\* with a well-formed body, the mock LBM on every other outcome
reply_text(user, prompt, openai_key, ext, ext_text) ==
    IF openai_key # <<>>
    THEN IF ext = "ok" THEN strip(ext_text) ELSE mock_lbm_response(user, prompt)
    ELSE mock_lbm_response(user, prompt)

generated_by(openai_key) == IF openai_key = <<>> THEN "mock_lbm" ELSE "openai_proxy"

\* detect_tech_info(): {"ip": ip, "browser": ""}, ip None when the lookup fails
detect_tech_info(ip) ==
    JObj(<<JPair("ip", IF ip = <<>> THEN JNull ELSE JStr(ip)), JPair("browser", JStr(<<>>))>>)

allow_tech_info(user) ==
    IF "allow_tech_info" \in DOMAIN user.meta THEN user.meta["allow_tech_info"] ELSE TRUE

user_conv(id, user, prompt, ip, ts) ==
    [id |-> id, user_id |-> user.id, role |-> "user", message |-> prompt,
     metadata |-> JObj(<<JPair("tech", IF allow_tech_info(user)
                                       THEN detect_tech_info(ip) ELSE JObj(<<>>))>>),
     ts |-> ts]

assistant_conv(id, user, assistant_text, openai_key, ts) ==
    [id |-> id, user_id |-> user.id, role |-> "assistant", message |-> assistant_text,
     metadata |-> JObj(<<JPair("generated_by", JStr(<<generated_by(openai_key)>>))>>),
     ts |-> ts]

\* ------------------------------------------------------------------ inputs
\* the values of the register form
RegisterForms ==
    [submitted : {TRUE}, name : Names, email : Emails, phone : {<<>>}, bio : Bios,
     allow_cookies : BOOLEAN, reject_sensitive : {TRUE}]
    \cup [submitted : {FALSE}, name : {<<>>}, email : {<<>>}, phone : {<<>>},
          bio : {<<>>}, allow_cookies : {TRUE}, reject_sensitive : {TRUE}]

\* the values of the chat form and of the key field
ChatForms ==
    [submit : BOOLEAN, prompt : Prompts, remember_pref : BOOLEAN, openai_key : Keys]

NoChat == [submit |-> FALSE, prompt |-> <<>>, remember_pref |-> TRUE, openai_key |-> <<>>]

\* what requests.post and the body decoding do; "none" when no call is made
ExtResults ==
    [outcome : ExtOutcomes \ {"ok"}, text : {<<>>}] \cup [outcome : {"ok"}, text : ExternalTexts]

NoExt == [outcome |-> "none", text |-> <<>>]

\* ------------------------------------------------------------------- state
VARIABLES
    db,               \* assessli.db: table name -> set of rows
    medium,           \* "ok" or "down": whether sqlite3 calls succeed
    session_user_id,  \* st.session_state["user_id"] of each session, 0 for None
    pc,               \* position of each session's script run
    clicked,          \* whether the button that triggered the run was seen
    chat,             \* the chat form values of the turn in progress
    ext,              \* the result of the OpenAI call of the turn
    user,             \* main()'s local user: <<>> or <<dict>>
    conv_id,          \* id of the user conv of the turn, 0 before it is built
    asst_id,          \* id of assistant_conv, 0 before it is built
    assistant_text,   \* companion_chat_ui's local assistant_text
    shown,            \* what st.write(assistant_text) put on the page
    warned,           \* whether st.warning("Saved user not found ...") was shown
    error,            \* the call whose exception ended the run, "" if none
    nextId,           \* the next uuid4
    now,              \* datetime.utcnow(): the number of readings so far
    conv_before,      \* history: the conversations rows when the turn began
    turnsDone,        \* history: completed turns
    turnsPersist,     \* history: completed turns that had remember_pref
    lastPut,          \* history: id -> the user last given to save_user
    got               \* result of the last direct fetch_user call

vars == <<db, medium, session_user_id, pc, clicked, chat, ext, user, conv_id, asst_id,
          assistant_text, shown, warned, error, nextId, now, conv_before,
          turnsDone, turnsPersist, lastPut, got>>

locals == <<clicked, chat, ext, user, conv_id, asst_id, assistant_text, shown, warned,
            error>>
history == <<conv_before, turnsDone, turnsPersist>>

Init ==
    /\ db = NoTables
    /\ medium = "ok"
    /\ session_user_id = [s \in Sessions |-> 0]
    /\ pc = [s \in Sessions |-> "Idle"]
    /\ clicked = [s \in Sessions |-> FALSE]
    /\ chat = [s \in Sessions |-> NoChat]
    /\ ext = [s \in Sessions |-> NoExt]
    /\ user = [s \in Sessions |-> <<>>]
    /\ conv_id = [s \in Sessions |-> 0]
    /\ asst_id = [s \in Sessions |-> 0]
    /\ assistant_text = [s \in Sessions |-> <<>>]
    /\ shown = [s \in Sessions |-> <<>>]
    /\ warned = [s \in Sessions |-> FALSE]
    /\ error = [s \in Sessions |-> ""]
    /\ nextId = 1
    /\ now = 0
    /\ conv_before = [s \in Sessions |-> {}]
    /\ turnsDone = 0
    /\ turnsPersist = 0
    /\ lastPut = [i \in 1..MaxIds |-> <<>>]
    /\ got = <<>>

\* ----------------------------------------------------------- main(), by step
registered == Cardinality({i \in DOMAIN lastPut : lastPut[i] # <<>>})

\* A widget interaction starts a run of the script; main() first calls init_db()
StartRun(s) ==
    /\ pc[s] = "Idle"
    /\ IF medium = "ok"
       THEN /\ db' = init_db(db)
            /\ pc' = [pc EXCEPT ![s] = "Started"]
            /\ error' = error
       ELSE /\ db' = db
            /\ pc' = [pc EXCEPT ![s] = "Failed"]
            /\ error' = [error EXCEPT ![s] = "init_db"]
    /\ UNCHANGED <<medium, session_user_id, clicked, chat, ext, user, conv_id, asst_id,
                   assistant_text, shown, warned, nextId, now, history, lastPut, got>>

\* register_flow(conn) when the form was submitted with a name and an email
register_user(s, form) ==
    LET new == [id |-> nextId, name |-> form.name, email |-> form.email,
                phone |-> form.phone,
                meta |-> [bio |-> form.bio, allow_tech_info |-> form.allow_cookies,
                          sensitive_data_ack |-> form.reject_sensitive],
                created_at |-> now]
    IN /\ nextId <= MaxIds
       /\ registered < MaxUsers
       /\ nextId' = nextId + 1
       /\ now' = now + 1
       /\ clicked' = [clicked EXCEPT ![s] = TRUE]
       /\ warned' = warned
       /\ IF medium = "ok"
          THEN /\ db' = save_user(db, new)
               /\ lastPut' = [lastPut EXCEPT ![new.id] = <<new>>]
               /\ session_user_id' = [session_user_id EXCEPT ![s] = new.id]
               /\ user' = [user EXCEPT ![s] = <<new>>]
               /\ pc' = [pc EXCEPT ![s] = "ProfileResolved"]
               /\ error' = error
          ELSE /\ pc' = [pc EXCEPT ![s] = "Failed"]
               /\ error' = [error EXCEPT ![s] = "save_user"]
               /\ UNCHANGED <<db, lastPut, session_user_id, user>>

\* the else branch of main(): load the user the session is bound to
load_user(s) ==
    /\ UNCHANGED <<db, lastPut, nextId, now, clicked>>
    /\ IF medium = "ok"
       THEN LET found == fetch_user(db, session_user_id[s])
            IN /\ user' = [user EXCEPT ![s] = found]
               /\ session_user_id' =
                      IF found = <<>> THEN [session_user_id EXCEPT ![s] = 0]
                      ELSE session_user_id
               /\ warned' = [warned EXCEPT ![s] = (found = <<>>)]
               /\ pc' = [pc EXCEPT ![s] = IF found = <<>> THEN "NoProfile"
                                          ELSE "ProfileResolved"]
               /\ error' = error
       ELSE /\ pc' = [pc EXCEPT ![s] = "Failed"]
            /\ error' = [error EXCEPT ![s] = "fetch_user"]
            /\ UNCHANGED <<session_user_id, user, warned>>

\* "Register or load" of main()
ResolveProfile(s) ==
    /\ pc[s] = "Started"
    /\ IF session_user_id[s] = 0
       THEN \E form \in RegisterForms :
               IF form.submitted
               THEN IF form.name = <<>> \/ form.email = <<>>
                    THEN /\ user' = [user EXCEPT ![s] = <<>>]
                         /\ pc' = [pc EXCEPT ![s] = "NoProfile"]
                         /\ clicked' = [clicked EXCEPT ![s] = TRUE]
                         /\ UNCHANGED <<db, lastPut, nextId, now, session_user_id, error,
                                        warned>>
                    ELSE register_user(s, form)
               ELSE /\ user' = [user EXCEPT ![s] = <<>>]
                    /\ pc' = [pc EXCEPT ![s] = "NoProfile"]
                    /\ UNCHANGED <<db, lastPut, nextId, now, session_user_id, error,
                                   clicked, warned>>
       ELSE load_user(s)
    /\ UNCHANGED <<medium, chat, ext, conv_id, asst_id, assistant_text, shown,
                   history, got>>

\* "if submit and prompt" of companion_chat_ui
chat_submitted(form) == form.submit /\ form.prompt # <<>>

\* mutants: the checkbox is ignored
should_save_input_never(remember_pref) == FALSE
should_save_input_always(remember_pref) == TRUE

\* "if remember_pref:" of companion_chat_ui
should_save_input(remember_pref) == remember_pref

\* companion_chat_ui, lines 232-244: build conv, save it if remember_pref
PersistInput(s) ==
    /\ pc[s] = "ProfileResolved"
    /\ ~clicked[s]
    /\ nextId + 1 <= MaxIds
    /\ \E form \in ChatForms, ip \in Ips :
          LET conv == user_conv(nextId, user[s][1], form.prompt, ip, now)
          IN /\ chat_submitted(form)
             /\ chat' = [chat EXCEPT ![s] = form]
             /\ clicked' = [clicked EXCEPT ![s] = TRUE]
             /\ conv_id' = [conv_id EXCEPT ![s] = conv.id]
             /\ nextId' = nextId + 1
             /\ now' = now + 1
             /\ conv_before' = [conv_before EXCEPT ![s] = db["conversations"]]
             /\ IF should_save_input(form.remember_pref)
                THEN IF medium = "ok" /\ ~pk_conflict(db, "conversations", conv.id)
                     THEN /\ db' = save_message(db, conv)
                          /\ pc' = [pc EXCEPT ![s] = "InputPersisted"]
                          /\ error' = error
                     ELSE /\ db' = db
                          /\ pc' = [pc EXCEPT ![s] = "Failed"]
                          /\ error' = [error EXCEPT ![s] = "save_message(conv)"]
                ELSE /\ db' = db
                     /\ pc' = [pc EXCEPT ![s] = "InputPersisted"]
                     /\ error' = error
    /\ UNCHANGED <<medium, session_user_id, ext, user, asst_id, assistant_text,
                   shown, warned, turnsDone, turnsPersist, lastPut, got>>

\* companion_chat_ui, lines 246-272
ObtainReply(s) ==
    /\ pc[s] = "InputPersisted"
    /\ \E res \in IF chat[s].openai_key # <<>> THEN ExtResults ELSE {NoExt} :
          /\ ext' = [ext EXCEPT ![s] = res]
          /\ assistant_text' = [assistant_text EXCEPT ![s] =
                 reply_text(user[s][1], chat[s].prompt, chat[s].openai_key,
                            res.outcome, res.text)]
    /\ pc' = [pc EXCEPT ![s] = "ReplyObtained"]
    /\ UNCHANGED <<db, medium, session_user_id, clicked, chat, user, conv_id, asst_id,
                   shown, warned, error, nextId, now, history, lastPut, got>>

\* companion_chat_ui, lines 274-283
PersistOutput(s) ==
    /\ pc[s] = "ReplyObtained"
    /\ nextId <= MaxIds
    /\ LET conv == assistant_conv(nextId, user[s][1], assistant_text[s],
                                  chat[s].openai_key, now)
       IN /\ asst_id' = [asst_id EXCEPT ![s] = conv.id]
          /\ nextId' = nextId + 1
          /\ now' = now + 1
          /\ IF medium = "ok" /\ ~pk_conflict(db, "conversations", conv.id)
             THEN /\ db' = save_message(db, conv)
                  /\ pc' = [pc EXCEPT ![s] = "OutputPersisted"]
                  /\ error' = error
             ELSE /\ db' = db
                  /\ pc' = [pc EXCEPT ![s] = "Failed"]
                  /\ error' = [error EXCEPT ![s] = "save_message(assistant_conv)"]
    /\ UNCHANGED <<medium, session_user_id, clicked, chat, ext, user, conv_id,
                   assistant_text, shown, warned, history, lastPut, got>>

\* companion_chat_ui, lines 285-287
ShowReply(s) ==
    /\ pc[s] = "OutputPersisted"
    /\ shown' = [shown EXCEPT ![s] = <<assistant_text[s]>>]
    /\ pc' = [pc EXCEPT ![s] = "Done"]
    /\ turnsDone' = turnsDone + 1
    /\ turnsPersist' = IF chat[s].remember_pref THEN turnsPersist + 1 ELSE turnsPersist
    /\ UNCHANGED <<db, medium, session_user_id, clicked, chat, ext, user, conv_id,
                   asst_id, assistant_text, warned, error, nextId, now, conv_before,
                   lastPut, got>>

\* the rows the admin panel lists: SELECT ... FROM conversations / users
admin_panel(d, show_users, show_convs) ==
    (IF show_users THEN d["users"] ELSE {}) \cup
    (IF show_convs THEN d["conversations"] ELSE {})

\* the rest of main(): a run without a chat turn leaves companion_chat_ui with
\* the form not submitted or the prompt empty; then the profile tab with its
\* log-out button; then the admin panel, whose two listings only read
FinishRun(s) ==
    /\ \/ pc[s] \in {"NoProfile", "Done"}
       \/ pc[s] = "ProfileResolved" /\ \E form \in ChatForms : ~chat_submitted(form)
    /\ \E logout \in BOOLEAN, show_users \in BOOLEAN, show_convs \in BOOLEAN :
          /\ (logout \/ show_users \/ show_convs) => ~clicked[s]
          /\ ~(logout /\ (show_users \/ show_convs))
          /\ ~(show_users /\ show_convs)
          /\ logout => user[s] # <<>>
          /\ admin_panel(db, show_users, show_convs) \subseteq db["users"] \cup db["conversations"]
          /\ session_user_id' =
                 IF logout THEN [session_user_id EXCEPT ![s] = 0] ELSE session_user_id
    /\ pc' = [pc EXCEPT ![s] = "Idle"]
    /\ clicked' = [clicked EXCEPT ![s] = FALSE]
    /\ chat' = [chat EXCEPT ![s] = NoChat]
    /\ ext' = [ext EXCEPT ![s] = NoExt]
    /\ user' = [user EXCEPT ![s] = <<>>]
    /\ conv_id' = [conv_id EXCEPT ![s] = 0]
    /\ asst_id' = [asst_id EXCEPT ![s] = 0]
    /\ assistant_text' = [assistant_text EXCEPT ![s] = <<>>]
    /\ shown' = [shown EXCEPT ![s] = <<>>]
    /\ warned' = [warned EXCEPT ![s] = FALSE]
    /\ conv_before' = [conv_before EXCEPT ![s] = {}]
    /\ UNCHANGED <<db, medium, error, nextId, now, turnsDone, turnsPersist, lastPut, got>>

Next ==
    \/ \E s \in Sessions : StartRun(s)
    \/ \E s \in Sessions : ResolveProfile(s)
    \/ \E s \in Sessions : PersistInput(s)
    \/ \E s \in Sessions : ObtainReply(s)
    \/ \E s \in Sessions : PersistOutput(s)
    \/ \E s \in Sessions : ShowReply(s)
    \/ \E s \in Sessions : FinishRun(s)

Spec == Init /\ [][Next]_vars

\* ------------------------------------------------- the store fails or is lost
\* An exception of a sqlite3 call leaves main(): Streamlit ends the run
AbortRun(s) ==
    /\ pc[s] = "Failed"
    /\ pc' = [pc EXCEPT ![s] = "Idle"]
    /\ clicked' = [clicked EXCEPT ![s] = FALSE]
    /\ chat' = [chat EXCEPT ![s] = NoChat]
    /\ ext' = [ext EXCEPT ![s] = NoExt]
    /\ user' = [user EXCEPT ![s] = <<>>]
    /\ conv_id' = [conv_id EXCEPT ![s] = 0]
    /\ asst_id' = [asst_id EXCEPT ![s] = 0]
    /\ assistant_text' = [assistant_text EXCEPT ![s] = <<>>]
    /\ shown' = [shown EXCEPT ![s] = <<>>]
    /\ warned' = [warned EXCEPT ![s] = FALSE]
    /\ error' = [error EXCEPT ![s] = ""]
    /\ conv_before' = [conv_before EXCEPT ![s] = {}]
    /\ UNCHANGED <<db, medium, session_user_id, nextId, now, turnsDone, turnsPersist,
                   lastPut, got>>

\* the disk fills up or the file is locked: sqlite3 calls raise
MediumFails ==
    /\ medium = "ok"
    /\ medium' = "down"
    /\ UNCHANGED <<db, session_user_id, pc, locals, nextId, now, history, lastPut, got>>

MediumRecovers ==
    /\ medium = "down"
    /\ medium' = "ok"
    /\ UNCHANGED <<db, session_user_id, pc, locals, nextId, now, history, lastPut, got>>

NextFault ==
    \/ Next
    \/ \E s \in Sessions : AbortRun(s)
    \/ MediumFails
    \/ MediumRecovers

SpecFault == Init /\ [][NextFault]_vars

\* assessli.db is removed between two runs while the sessions live on
DbLost ==
    /\ \A s \in Sessions : pc[s] = "Idle"
    /\ db # NoTables
    /\ db' = NoTables
    /\ UNCHANGED <<medium, session_user_id, pc, locals, nextId, now, history, lastPut,
                   got>>

NextLoss == Next \/ DbLost

SpecLoss == Init /\ [][NextLoss]_vars

\* --------------------------------------------- the record store, called directly
StoreIds == {1, 2}

StoreProfiles ==
    [id : StoreIds, name : Names, email : {<<"@">>}, phone : {<<>>},
     meta : [bio : Bios, allow_tech_info : BOOLEAN, sensitive_data_ack : {TRUE}],
     created_at : {0}]

InitDb ==
    /\ db' = init_db(db)
    /\ UNCHANGED <<medium, session_user_id, pc, locals, nextId, now, history, lastPut,
                   got>>

SaveUser(p) ==
    /\ "users" \in DOMAIN db
    /\ db' = save_user(db, p)
    /\ lastPut' = [lastPut EXCEPT ![p.id] = <<p>>]
    /\ UNCHANGED <<medium, session_user_id, pc, locals, nextId, now, history, got>>

FetchUser(id) ==
    /\ "users" \in DOMAIN db
    /\ got' = fetch_user(db, id)
    /\ UNCHANGED <<db, medium, session_user_id, pc, locals, nextId, now, history,
                   lastPut>>

NextStore ==
    \/ InitDb
    \/ \E p \in StoreProfiles : SaveUser(p)
    \/ \E id \in StoreIds : FetchUser(id)

SpecStore == Init /\ [][NextStore]_vars

\* ------------------------------------------------------------------ claims
rows(d, t) == IF t \in DOMAIN d THEN d[t] ELSE {}

ExternalFailed(s) == chat[s].openai_key # <<>> /\ ext[s].outcome \in ExtOutcomes \ {"ok"}

\* the rows the turn in progress has added
added(s) == rows(db, "conversations") \ conv_before[s]

generated_by_text(tag) == JObj(<<JPair("generated_by", JStr(<<tag>>))>>)

\* C1: the assistant message of a turn is tagged openai_proxy (external) exactly
\* when its text came from the external model, and mock_lbm when the external
\* call failed and the mock LBM wrote the reply.
C1_GeneratedByNamesTheSource ==
    \A s \in Sessions :
        pc[s] \in {"OutputPersisted", "Done"} =>
            \A r \in rows(db, "conversations") :
                r.id = asst_id[s] =>
                    r.metadata = generated_by_text(
                        IF chat[s].openai_key # <<>> /\ ext[s].outcome = "ok"
                        THEN "openai_proxy" ELSE "mock_lbm")

\* C2: a storage error while saving the user message or the assistant message
\* does not end the turn.
C2_PersistFailureIsNotFatal ==
    \A s \in Sessions :
        ~(pc[s] = "Failed"
          /\ error[s] \in {"save_message(conv)", "save_message(assistant_conv)"})

\* C3: a turn with a non-empty prompt, no key and remember_pref set shows a
\* non-empty reply and has added exactly two rows: one user row with the prompt
\* and one assistant row with the reply shown, both with the active user's id.
C3_NoKeyTurnWritesTwoRows ==
    \A s \in Sessions :
        (pc[s] = "Done" /\ chat[s].openai_key = <<>> /\ chat[s].remember_pref) =>
            /\ chat[s].prompt # <<>>
            /\ shown[s] # <<>>
            /\ shown[s][1] # <<>>
            /\ conv_before[s] \subseteq rows(db, "conversations")
            /\ Cardinality(added(s)) = 2
            /\ Cardinality({r \in added(s) : r.role = "user"}) = 1
            /\ Cardinality({r \in added(s) : r.role = "assistant"}) = 1
            /\ \A r \in added(s) :
                  /\ r.user_id = session_user_id[s]
                  /\ r.user_id = user[s][1].id
                  /\ r.role = "user" => r.message = chat[s].prompt
                  /\ r.role = "assistant" => r.message = shown[s][1]

C3_Witness ==
    \E s \in Sessions :
        pc[s] = "Done" /\ chat[s].openai_key = <<>> /\ chat[s].remember_pref

\* C4: when a key is given and the external call fails, the turn goes on and
\* its reply is the text the turn would have had without a key.
C4_FallbackIsTheNoKeyReply ==
    \A s \in Sessions :
        ExternalFailed(s) =>
            /\ pc[s] # "Failed"
            /\ pc[s] \in {"ReplyObtained", "OutputPersisted", "Done"} =>
                  assistant_text[s] =
                      reply_text(user[s][1], chat[s].prompt, <<>>, "none", <<>>)
            /\ pc[s] = "Done" =>
                  shown[s] = <<mock_lbm_response(user[s][1], chat[s].prompt)>>

C4_Witness ==
    \E s \in Sessions :
        pc[s] = "Done" /\ ExternalFailed(s) /\ ext[s].outcome = "malformed"

\* C5: within a turn the user message is saved (when remember_pref is set)
\* before the reply is obtained and before the assistant message is saved, and
\* the run only moves Idle, ProfileResolved, InputPersisted, ReplyObtained,
\* OutputPersisted, Done in that order.
TurnRank(p) ==
    CASE p = "ProfileResolved" -> 1
      [] p = "InputPersisted" -> 2
      [] p = "ReplyObtained" -> 3
      [] p = "OutputPersisted" -> 4
      [] p = "Done" -> 5
      [] OTHER -> 0

UserMessageFirst ==
    \A s \in Sessions :
        /\ (pc[s] \in {"ReplyObtained", "OutputPersisted", "Done"}
            \/ \E r \in rows(db, "conversations") : asst_id[s] # 0 /\ r.id = asst_id[s]) =>
              /\ conv_id[s] # 0
              /\ chat[s].remember_pref =>
                    \E r \in rows(db, "conversations") :
                        r.id = conv_id[s] /\ r.role = "user"
        /\ asst_id[s] # 0 => conv_id[s] < asst_id[s]
        /\ TurnRank(pc[s]) < 3 => assistant_text[s] = <<>>
        /\ TurnRank(pc[s]) < 4 => asst_id[s] = 0

TurnOrder ==
    \A s \in Sessions :
        pc'[s] # pc[s] =>
            \/ TurnRank(pc'[s]) = TurnRank(pc[s]) + 1
            \/ pc[s] = "Idle" /\ pc'[s] = "Started"
            \/ pc[s] = "Started" /\ pc'[s] = "NoProfile"
            \/ pc[s] \in {"NoProfile", "ProfileResolved", "Done"} /\ pc'[s] = "Idle"

C5_UserMessageBeforeAssistant == [] UserMessageFirst /\ [][TurnOrder]_vars

C5_Witness ==
    \E s \in Sessions :
        /\ pc[s] = "OutputPersisted"
        /\ chat[s].remember_pref
        /\ \E r \in rows(db, "conversations") : r.id = asst_id[s]

\* C6: save_user is an upsert on id: the users table has at most one row per
\* id and fetch_user(id) gives back, field for field, the user last saved with
\* that id, and None for an id never saved.
C6_SaveUserReplaces ==
    "users" \in DOMAIN db =>
        \A i \in DOMAIN lastPut :
            /\ Cardinality({r \in db["users"] : r.id = i}) <= 1
            /\ fetch_user(db, i) = lastPut[i]

\* a user was fetched and then replaced by a different one with the same id,
\* while the other id holds a user too
C6_Witness ==
    /\ got # <<>>
    /\ lastPut[got[1].id] # got
    /\ \A i \in StoreIds : lastPut[i] # <<>>

\* C7: init_db never changes the rows of either table, and a second init_db
\* changes nothing at all.
InitDbKeepsRows ==
    \A s \in Sessions :
        (pc[s] = "Idle" /\ pc'[s] = "Started") =>
            /\ db' = init_db(db)
            /\ rows(db', "users") = rows(db, "users")
            /\ rows(db', "conversations") = rows(db, "conversations")
            /\ init_db(db') = db'

C7_InitDbIsIdempotent == [][InitDbKeepsRows]_vars

C7_Witness ==
    \E s \in Sessions :
        /\ pc[s] = "Started"
        /\ rows(db, "users") # {}
        /\ Cardinality(rows(db, "conversations")) >= 2

\* C8: no step of the application removes or changes a row of conversations,
\* and no two rows share an id.
MessagesKept ==
    /\ rows(db, "conversations") \subseteq rows(db', "conversations")
    /\ \A r1, r2 \in rows(db', "conversations") : r1.id = r2.id => r1 = r2

C8_MessagesAppendOnly == [][MessagesKept]_vars

C8_Witness ==
    /\ Cardinality(rows(db, "conversations")) >= 3
    /\ \A s \in Sessions : session_user_id[s] = 0 /\ pc[s] = "Started"

\* C9: a turn only runs for a user found in (or just saved to) the users table
\* in the same run.  A session bound to an id with no row gets the warning, no
\* exception, its binding cleared and no turn, and writes nothing in that run;
\* a session without a binding only gets register_flow.  So every row of
\* conversations has the id of a stored user.
TurnHasStoredUser ==
    /\ \A s \in Sessions :
          pc[s] \in {"ProfileResolved", "InputPersisted", "ReplyObtained",
                     "OutputPersisted", "Done"} =>
              /\ user[s] # <<>>
              /\ ~warned[s]
              /\ session_user_id[s] = user[s][1].id
              /\ fetch_user(db, user[s][1].id) = user[s]
    /\ \A s \in Sessions : pc[s] = "NoProfile" => user[s] = <<>> /\ session_user_id[s] = 0
    /\ \A r \in rows(db, "conversations") :
          \E u \in rows(db, "users") : u.id = r.user_id

AbsentUserRouted ==
    \A s \in Sessions :
        /\ (pc[s] = "Started" /\ pc'[s] # pc[s] /\ session_user_id[s] # 0
            /\ fetch_user(db, session_user_id[s]) = <<>>) =>
              /\ pc'[s] = "NoProfile"
              /\ warned'[s]
              /\ error'[s] = ""
              /\ session_user_id'[s] = 0
              /\ db' = db
        /\ (pc[s] = "Started" /\ pc'[s] # pc[s] /\ session_user_id[s] = 0) =>
              \/ pc'[s] = "NoProfile" /\ db' = db
              \/ /\ pc'[s] = "ProfileResolved"
                 /\ fetch_user(db, user'[s][1].id) = <<>>
                 /\ rows(db', "conversations") = rows(db, "conversations")
        /\ pc[s] = "NoProfile" =>
              /\ pc'[s] \in {"NoProfile", "Idle"}
              /\ db' = db

C9_TurnOnlyForResolvedUser ==
    [] TurnHasStoredUser /\ [][AbsentUserRouted]_vars

C9_Witness ==
    \E s \in Sessions :
        pc[s] = "NoProfile" /\ warned[s] /\ session_user_id[s] = 0 /\ registered > 0

\* C10: remember_pref only decides the user message: a turn without it adds
\* one assistant row and no user row, and with no turn in progress the table
\* has one assistant row per completed turn and one user row per completed
\* turn that had remember_pref.
C10_PersistFlagOnlyForUserMessage ==
    /\ \A s \in Sessions :
          (pc[s] = "Done" /\ ~chat[s].remember_pref) =>
              /\ Cardinality(added(s)) = 1
              /\ \A r \in added(s) : r.role = "assistant" /\ r.message = shown[s][1]
    /\ (\A s \in Sessions : ~(pc[s] \in {"InputPersisted", "ReplyObtained", "OutputPersisted"})) =>
          /\ Cardinality({r \in rows(db, "conversations") : r.role = "assistant"}) = turnsDone
          /\ Cardinality({r \in rows(db, "conversations") : r.role = "user"}) = turnsPersist

C10_Witness ==
    /\ \E s \in Sessions : pc[s] = "Done" /\ ~chat[s].remember_pref
    /\ turnsDone = 2
    /\ turnsPersist = 1
====
